---- MODULE Spec2Model ----
(***************************************************************************)
(* SwapSathi: the off-chain deal record (Next.js API routes over Postgres) *)
(* and the on-chain escrow contract (SwapSathiEscrow).                     *)
(*                                                                         *)
(* Off-chain: POST /api/deals, PUT /api/deals/[id] (one action per await   *)
(* of the handler, so that two requests interleave as they do on the       *)
(* server), expireOldDeals.  On-chain: one action per external function;   *)
(* a call that reverts changes nothing and is therefore no step.           *)
(***************************************************************************)
EXTENDS Integers, Sequences, FiniteSets, TLC

(***************************************************************************)
(* Bounds of the model                                                     *)
(***************************************************************************)
\* deals POST /api/deals may store in SpecCreate and SpecSweep
MaxDeals == 3
\* deals that live through status updates, ratings and sweeps in Spec and SpecRace
MaxLiveDeals == 1
\* deals createDeal may store on chain
MaxChainDeals == 1

(***************************************************************************)
(* Off-chain constants and inputs                                          *)
(***************************************************************************)
\* SQL NULL / JS undefined: 0 in a numeric column, "" in a text or id column
NULL == 0
NONE == ""

Users == {"u1", "u2", "u3"}
Wallets == {"w1", "w2", "w3", "wx"}

Statuses == {"initiated", "funded", "payment_sent", "completed", "disputed", "cancelled", "expired"}

\* INTERVAL '24 hours' of deals.expires_at, and the contract's DEAL_TIMEOUT (hours)
DEAL_TIMEOUT == 24

\* times (hours) the clock takes: creation, the expiry boundary, the grace boundary, beyond
TimePoints == {0, 24, 25, 26}

AmountInputs == {-1, 0, 1, 2, 3, 4}
\* <<rating, feedback>> of a PUT body
RatingInputs == {<<NULL, NONE>>, <<5, NONE>>, <<3, "ok">>, <<5, "ok">>}
AdIdInputs == {"a1", "a2", "a3", "a9"}

\* the two requests in flight in SpecRace
Reqs == {"r1", "r2"}

(***************************************************************************)
(* On-chain constants and inputs                                           *)
(***************************************************************************)
\* the largest value of the token's and the contract's unsigned words, scaled down
UintMax == 1048575
\* DISPUTE_FEE = 0.001 ether, in finney
DISPUTE_FEE == 1
\* the divisor of the basis-point fee
BasisPoints == 10000
\* "Max 5%" of updatePlatformFee
MaxFeePercent == 500
\* the grace of emergencyRefund: 1 hours
RefundGrace == 1

\* externally owned accounts; the constructor's arguments; address(this)
Addr == {"A", "B", "ARB"}
arbitrator == "ARB"
feeRecipient == "FEE"
escrow == "escrow"

\* a small amount (fee 0), one with a fee, one whose fee computation overflows
ChainAmountInputs == {0, 1, 200, UintMax - 200}
FeeInputs == {0, 50, 500, 501}

\* the token's holders before any deal
InitBalances ==
  [a \in Addr \cup {feeRecipient, escrow} |->
     CASE a = "A" -> UintMax - 200
       [] a = "B" -> 200
       [] OTHER -> 0]

\* disputes: the rows of the disputes table (deal_id, status); no statement of the
\* API routes or of the database layer inserts into it
VARIABLES now, ads, deals, users, notifications, disputes, response, reqs,
          cdeals, balances, platformFeePercent, userReputation

offvars == <<ads, deals, users, notifications, disputes, response, reqs>>
chainvars == <<cdeals, balances, platformFeePercent, userReputation>>
vars == <<now, ads, deals, users, notifications, disputes, response, reqs,
          cdeals, balances, platformFeePercent, userReputation>>

(***************************************************************************)
(* Users and ads                                                           *)
(***************************************************************************)
\* SELECT * FROM users WHERE wallet_address = ...; NONE when no row
getUserByWallet(w) ==
  CASE w = "w1" -> "u1"
    [] w = "w2" -> "u2"
    [] w = "w3" -> "u3"
    [] OTHER -> NONE

\* the ads table: a sell ad with a minimum, a buy ad with a maximum, a paused ad
InitAds ==
  [a \in {"a1", "a2", "a3"} |->
     CASE a = "a1" -> [user_id |-> "u1", type |-> "sell", amount |-> 3, min_amount |-> 2,
                       max_amount |-> NULL, status |-> "active"]
       [] a = "a2" -> [user_id |-> "u2", type |-> "buy", amount |-> 3, min_amount |-> NULL,
                       max_amount |-> 2, status |-> "active"]
       [] OTHER    -> [user_id |-> "u3", type |-> "sell", amount |-> 3, min_amount |-> NULL,
                       max_amount |-> NULL, status |-> "paused"]]

\* SELECT ... FROM ads a JOIN users u ... WHERE a.id = adId AND a.status = 'active': the rows
getAdById(adId) ==
  {ads[a] : a \in {x \in DOMAIN ads : x = adId /\ ads[x].status = "active"}}

InitUsers == [u \in Users |-> [reputation_score |-> 0, total_trades |-> 0, successful_trades |-> 0]]

(***************************************************************************)
(* Deals table                                                             *)
(***************************************************************************)
DealIds == 1..Len(deals)

\* INSERT INTO deals (...) RETURNING *: the column defaults fill the rest
createDeal(dealData) ==
  [ad_id |-> dealData.ad_id, buyer_id |-> dealData.buyer_id, seller_id |-> dealData.seller_id,
   amount |-> dealData.amount, status |-> "initiated",
   buyer_rating |-> NULL, seller_rating |-> NULL,
   buyer_feedback |-> NONE, seller_feedback |-> NONE,
   deal_id_on_chain |-> NULL,
   expires_at |-> now + DEAL_TIMEOUT]

\* UPDATE deals SET status = $2, <additionalData columns> WHERE id = $1
updateDealStatus(deal, status, additionalData) ==
  [c \in DOMAIN deal |->
     IF c = "status" THEN status
     ELSE IF c \in DOMAIN additionalData THEN additionalData[c]
     ELSE deal[c]]

(***************************************************************************)
(* Reputation                                                              *)
(***************************************************************************)
\* the rows of table the reputation_calc CTE aggregates over
CompletedDealsOf(table, u) ==
  {d \in DOMAIN table :
     (table[d].buyer_id = u \/ table[d].seller_id = u) /\ table[d].status = "completed"}

\* COUNT(CASE WHEN (buyer_id = u AND seller_rating >= 4) OR (seller_id = u AND buyer_rating >= 4) ...)
PositiveRatingsOf(table, u) ==
  {d \in CompletedDealsOf(table, u) :
     \/ (table[d].buyer_id = u /\ table[d].seller_rating >= 4)
     \/ (table[d].seller_id = u /\ table[d].buyer_rating >= 4)}

\* ROUND(p::DECIMAL / c * 100): numeric rounding, ties away from zero
RoundPercent(p, c) == (200 * p + c) \div (2 * c)

\* the row UPDATE users SET ... WHERE id = u writes, computed over table
updateUserReputation(table, u) ==
  LET total_completed_deals == Cardinality(CompletedDealsOf(table, u))
      positive_ratings == Cardinality(PositiveRatingsOf(table, u))
  IN [reputation_score |-> IF total_completed_deals = 0 THEN 0
                           ELSE RoundPercent(positive_ratings, total_completed_deals),
      total_trades |-> total_completed_deals,
      successful_trades |-> positive_ratings]

(***************************************************************************)
(* Init                                                                    *)
(***************************************************************************)
IdleReq == [pc |-> "idle", deal |-> 0, user |-> NONE, status |-> NONE, updateData |-> <<>>,
            currentDeal |-> <<>>, pending |-> {}]

Init ==
  /\ now = 0
  /\ ads = InitAds
  /\ deals = <<>>
  /\ users = InitUsers
  /\ notifications = {}
  /\ disputes = {}
  /\ response = 0
  /\ reqs = [r \in Reqs |-> IdleReq]
  /\ cdeals = <<>>
  /\ balances = InitBalances
  /\ platformFeePercent = 50
  /\ userReputation = [a \in Addr |-> 0]

\* the clock moves on to t
Tick(t) ==
  /\ t > now
  /\ now' = t
  /\ UNCHANGED <<offvars, chainvars>>

(***************************************************************************)
(* POST /api/deals                                                         *)
(***************************************************************************)
\* the checks of POST without the self-trading check
PostStatusSelfTrade(adId, buyerWallet, amount) ==
  IF adId = NONE \/ buyerWallet = NONE \/ amount = 0 THEN 400
  ELSE IF amount <= 0 THEN 400
  ELSE IF getAdById(adId) = {} THEN 404
  ELSE IF getUserByWallet(buyerWallet) = NONE THEN 404
  ELSE LET ad == CHOOSE a \in getAdById(adId) : TRUE
       IN IF ad.min_amount # NULL /\ amount < ad.min_amount THEN 400
          ELSE IF ad.max_amount # NULL /\ amount > ad.max_amount THEN 400
          ELSE IF amount > ad.amount THEN 400
          ELSE 200

\* the checks of POST with the maximum compared against the ad's amount only
PostStatusNoMax(adId, buyerWallet, amount) ==
  IF adId = NONE \/ buyerWallet = NONE \/ amount = 0 THEN 400
  ELSE IF amount <= 0 THEN 400
  ELSE IF getAdById(adId) = {} THEN 404
  ELSE IF getUserByWallet(buyerWallet) = NONE THEN 404
  ELSE LET ad == CHOOSE a \in getAdById(adId) : TRUE
           buyer == getUserByWallet(buyerWallet)
       IN IF ad.user_id = buyer THEN 400
          ELSE IF ad.min_amount # NULL /\ amount < ad.min_amount THEN 400
          ELSE IF amount > ad.amount THEN 400
          ELSE 200

\* the checks of the handler, in order: the HTTP status of the rejection, 200 when none
PostStatus(adId, buyerWallet, amount) ==
  IF adId = NONE \/ buyerWallet = NONE \/ amount = 0 THEN 400
  ELSE IF amount <= 0 THEN 400
  ELSE IF getAdById(adId) = {} THEN 404
  ELSE IF getUserByWallet(buyerWallet) = NONE THEN 404
  ELSE LET ad == CHOOSE a \in getAdById(adId) : TRUE
           buyer == getUserByWallet(buyerWallet)
       IN IF ad.user_id = buyer THEN 400
          ELSE IF ad.min_amount # NULL /\ amount < ad.min_amount THEN 400
          ELSE IF ad.max_amount # NULL /\ amount > ad.max_amount THEN 400
          ELSE IF amount > ad.amount THEN 400
          ELSE 200

\* lines 205-220: buyer and seller by ad type, and the row to insert
PostDealData(adId, buyerWallet, amount) ==
  LET ad == CHOOSE a \in getAdById(adId) : TRUE
      buyer == getUserByWallet(buyerWallet)
  IN [ad_id |-> adId,
      buyer_id |-> IF ad.type = "sell" THEN buyer ELSE ad.user_id,
      seller_id |-> IF ad.type = "sell" THEN ad.user_id ELSE buyer,
      amount |-> amount]

\* a handler that takes the deal's amount off the ad it was created against
PostReserving(adId, buyerWallet, amount) ==
  /\ Len(deals) < MaxDeals
  /\ response' = PostStatus(adId, buyerWallet, amount)
  /\ IF PostStatus(adId, buyerWallet, amount) = 200
     THEN LET dealData == PostDealData(adId, buyerWallet, amount)
              id == Len(deals) + 1
          IN /\ deals' = Append(deals, createDeal(dealData))
             /\ notifications' = notifications \cup
                  {<<dealData.buyer_id, "Deal Created", id>>,
                   <<dealData.seller_id, "New Deal Request", id>>}
             /\ ads' = [ads EXCEPT ![adId].amount = @ - amount]
     ELSE UNCHANGED <<deals, notifications, ads>>
  /\ UNCHANGED <<now, disputes, users, reqs, chainvars>>

\* the whole handler: a rejected request stores nothing
POST(adId, buyerWallet, amount) ==
  /\ Len(deals) < MaxDeals
  /\ response' = PostStatus(adId, buyerWallet, amount)
  /\ IF PostStatus(adId, buyerWallet, amount) = 200
     THEN LET dealData == PostDealData(adId, buyerWallet, amount)
              id == Len(deals) + 1
          IN /\ deals' = Append(deals, createDeal(dealData))
             /\ notifications' = notifications \cup
                  {<<dealData.buyer_id, "Deal Created", id>>,
                   <<dealData.seller_id, "New Deal Request", id>>}
     ELSE UNCHANGED <<deals, notifications>>
  /\ UNCHANGED <<now, ads, disputes, users, reqs, chainvars>>

(***************************************************************************)
(* PUT /api/deals/[id]                                                     *)
(***************************************************************************)
\* a handler without the participant check of lines 54-57
PutStatusNoAuth(id, walletAddress, status) ==
  IF walletAddress = NONE \/ status = NONE THEN 400
  ELSE IF id \notin DealIds THEN 404
  ELSE IF getUserByWallet(walletAddress) = NONE THEN 404
  ELSE 200

\* lines 38-57: the HTTP status of the rejection, 200 when the request goes on to the update
PutStatus(id, walletAddress, status) ==
  IF walletAddress = NONE \/ status = NONE THEN 400
  ELSE IF id \notin DealIds THEN 404
  ELSE IF getUserByWallet(walletAddress) = NONE THEN 404
  ELSE IF getUserByWallet(walletAddress) # deals[id].buyer_id
          /\ getUserByWallet(walletAddress) # deals[id].seller_id THEN 403
  ELSE 200

\* lines 59-76: the columns the request adds to the UPDATE (of the chain reference the
\* id of the deal on chain; transaction hash, contract address and payment details are
\* stored and never read)
PrepareUpdateData(user, currentDeal, rating, feedback, dealIdOnChain) ==
  LET link == IF dealIdOnChain # NULL THEN {"deal_id_on_chain"} ELSE {}
      rated == IF rating # NULL /\ feedback # NONE
               THEN IF user = currentDeal.buyer_id
                    THEN {"seller_rating", "seller_feedback"}
                    ELSE {"buyer_rating", "buyer_feedback"}
               ELSE {}
  IN IF link \cup rated = {} THEN <<>>
     ELSE [c \in link \cup rated |->
             CASE c = "deal_id_on_chain" -> dealIdOnChain
               [] c \in {"seller_rating", "buyer_rating"} -> rating
               [] OTHER -> feedback]

\* the switch on status: the message of the notification, NONE when there is none
notificationMessage(status) ==
  CASE status = "funded" -> "Deal has been funded with escrow contract"
    [] status = "payment_sent" -> "Payment has been sent. Please confirm receipt."
    [] status = "completed" -> "Deal completed successfully!"
    [] status = "disputed" -> "Deal has been disputed. Arbitrator will review."
    [] status = "cancelled" -> "Deal has been cancelled"
    [] OTHER -> NONE

\* line 82
otherUserId(user, currentDeal) ==
  IF user = currentDeal.buyer_id THEN currentDeal.seller_id ELSE currentDeal.buyer_id

\* the users table after the Promise.all of lines 95-98 over table
RecomputeBoth(table, currentDeal) ==
  [u \in Users |->
     IF u \in {currentDeal.buyer_id, currentDeal.seller_id}
     THEN updateUserReputation(table, u) ELSE users[u]]

\* the whole handler run without another request in between; notified = the insert of
\* the notification succeeds (a failed insert is caught: 500)
PUT(id, walletAddress, status, rating, feedback, dealIdOnChain, notified) ==
  /\ Len(deals) > 0
  /\ IF PutStatus(id, walletAddress, status) # 200
     THEN /\ response' = PutStatus(id, walletAddress, status)
          /\ UNCHANGED <<deals, users, notifications>>
     ELSE LET user == getUserByWallet(walletAddress)
              currentDeal == deals[id]
              updateData == PrepareUpdateData(user, currentDeal, rating, feedback, dealIdOnChain)
              updated == [deals EXCEPT ![id] = updateDealStatus(deals[id], status, updateData)]
              sent == notificationMessage(status) # NONE /\ notified
          IN /\ deals' = updated
             /\ users' = IF status = "completed" THEN RecomputeBoth(updated, currentDeal)
                         ELSE users
             /\ notifications' =
                  IF sent THEN notifications \cup {<<otherUserId(user, currentDeal), "Deal Update", id>>}
                  ELSE notifications
             /\ response' = IF notificationMessage(status) # NONE /\ ~notified THEN 500 ELSE 200
  /\ UNCHANGED <<now, ads, disputes, reqs, chainvars>>

(***************************************************************************)
(* Expiry sweep                                                            *)
(***************************************************************************)
\* a sweep that looks at expires_at alone
ExpirableAnyStatus(deal) == deal.expires_at < now

\* a sweep that takes the deal at its expires_at already
ExpirableAtDeadline(deal) ==
  deal.status \in {"initiated", "funded", "payment_sent"} /\ deal.expires_at <= now

\* the WHERE clause of the sweep
Expirable(deal) == deal.status \in {"initiated", "funded", "payment_sent"} /\ deal.expires_at < now

\* UPDATE deals SET status = 'expired' WHERE status IN (...) AND expires_at < NOW()
expireOldDeals ==
  /\ deals' = [d \in DealIds |->
                IF Expirable(deals[d]) THEN [deals[d] EXCEPT !.status = "expired"] ELSE deals[d]]
  /\ UNCHANGED <<now, ads, disputes, users, notifications, response, reqs, chainvars>>

(***************************************************************************)
(* PUT /api/deals/[id], one action per awaited statement                   *)
(***************************************************************************)
\* lines 26-76: parse, load the deal and the user, authorize, prepare the update
PutBegin(r, id, walletAddress, status, rating, feedback, dealIdOnChain) ==
  /\ reqs[r].pc = "idle"
  /\ IF PutStatus(id, walletAddress, status) # 200
     THEN /\ response' = PutStatus(id, walletAddress, status)
          /\ UNCHANGED reqs
     ELSE /\ reqs' = [reqs EXCEPT ![r] =
                [pc |-> "update", deal |-> id, user |-> getUserByWallet(walletAddress),
                 status |-> status,
                 updateData |-> PrepareUpdateData(getUserByWallet(walletAddress), deals[id],
                                                  rating, feedback, dealIdOnChain),
                 currentDeal |-> deals[id], pending |-> {}]]
          /\ UNCHANGED response
  /\ UNCHANGED <<now, ads, disputes, deals, users, notifications, chainvars>>

\* line 79: await SwapSathiDB.updateDealStatus(params.id, status, updateData)
PutUpdate(r) ==
  /\ reqs[r].pc = "update"
  /\ deals' = [deals EXCEPT ![reqs[r].deal] =
                 updateDealStatus(deals[reqs[r].deal], reqs[r].status, reqs[r].updateData)]
  /\ IF reqs[r].status = "completed"
     THEN /\ reqs' = [reqs EXCEPT ![r].pc = "reputation", ![r].updateData = <<>>,
                        ![r].pending = {reqs[r].currentDeal.buyer_id, reqs[r].currentDeal.seller_id}]
          /\ UNCHANGED response
     ELSE IF notificationMessage(reqs[r].status) # NONE
     THEN /\ reqs' = [reqs EXCEPT ![r].pc = "notify", ![r].updateData = <<>>]
          /\ UNCHANGED response
     ELSE /\ reqs' = [reqs EXCEPT ![r] = IdleReq]
          /\ response' = 200
  /\ UNCHANGED <<now, ads, disputes, users, notifications, chainvars>>

\* lines 95-98: one of the two statements of the Promise.all
PutReputation(r, u) ==
  /\ reqs[r].pc = "reputation"
  /\ u \in reqs[r].pending
  /\ users' = [users EXCEPT ![u] = updateUserReputation(deals, u)]
  /\ reqs' = [reqs EXCEPT ![r].pc = IF reqs[r].pending = {u} THEN "notify" ELSE "reputation",
                          ![r].pending = @ \ {u}]
  /\ UNCHANGED <<now, ads, disputes, deals, notifications, response, chainvars>>

\* lines 108-126: the insert of the notification, then the response; a failed insert is
\* caught (500)
PutNotify(r, notified) ==
  /\ reqs[r].pc = "notify"
  /\ notifications' =
       IF notified
       THEN notifications \cup {<<otherUserId(reqs[r].user, reqs[r].currentDeal), "Deal Update",
                                  reqs[r].deal>>}
       ELSE notifications
  /\ response' = IF notified THEN 200 ELSE 500
  /\ reqs' = [reqs EXCEPT ![r] = IdleReq]
  /\ UNCHANGED <<now, ads, disputes, deals, users, chainvars>>

(***************************************************************************)
(* SwapSathiEscrow                                                         *)
(***************************************************************************)
ChainDealIds == 1..Len(cdeals)

\* checked multiplication of Solidity 0.8: TRUE when a * b fits the word
MulFits(a, b) == a * b <= UintMax

\* IERC20.safeTransfer / safeTransferFrom of amount from one holder to another
Transfer(bal, from, to, amount) ==
  [a \in DOMAIN bal |->
     IF from = to THEN bal[a]
     ELSE IF a = from THEN bal[a] - amount
     ELSE IF a = to THEN bal[a] + amount
     ELSE bal[a]]

\* uint256 fee = (deal.amount * platformFeePercent) / 10000
PlatformFee(amount) == (amount * platformFeePercent) \div BasisPoints

\* a payout that sends the seller's share and leaves the fee in the contract
PayoutKeepsFee(deal) ==
  Transfer(balances, escrow, deal.seller, deal.amount - PlatformFee(deal.amount))

\* the balances after sellerAmount goes to the seller and the fee, when positive, to feeRecipient
PayoutToSeller(deal) ==
  LET fee == PlatformFee(deal.amount)
      sellerAmount == deal.amount - fee
      paid == Transfer(balances, escrow, deal.seller, sellerAmount)
  IN IF fee > 0 THEN Transfer(paid, escrow, feeRecipient, fee) ELSE paid

\* the refund with the platform fee taken out of it, as the seller's payout is
RefundLessFee(deal) ==
  LET fee == PlatformFee(deal.amount)
      paid == Transfer(balances, escrow, deal.buyer, deal.amount - fee)
  IN IF fee > 0 THEN Transfer(paid, escrow, feeRecipient, fee) ELSE paid

\* IERC20(deal.token).safeTransfer(deal.buyer, deal.amount)
RefundToBuyer(deal) == Transfer(balances, escrow, deal.buyer, deal.amount)

ChainCreateDeal(sender, _seller, _amount, _inrAmount) ==
  /\ Len(cdeals) < MaxChainDeals
  /\ _seller # sender
  /\ _amount > 0
  /\ _inrAmount > 0
  /\ cdeals' = Append(cdeals,
       [buyer |-> sender, seller |-> _seller, amount |-> _amount, inrAmount |-> _inrAmount,
        status |-> "Created", createdAt |-> now, expiresAt |-> now + DEAL_TIMEOUT,
        sellerConfirmed |-> FALSE, buyerConfirmed |-> FALSE])
  /\ UNCHANGED <<now, offvars, balances, platformFeePercent, userReputation>>

\* a funding that does not look at the clock (without the require of line 124)
fundDealNoExpiry(sender, _dealId) ==
  /\ _dealId \in ChainDealIds
  /\ cdeals[_dealId].buyer = sender
  /\ cdeals[_dealId].status = "Created"
  /\ balances[sender] >= cdeals[_dealId].amount
  /\ balances' = Transfer(balances, sender, escrow, cdeals[_dealId].amount)
  /\ cdeals' = [cdeals EXCEPT ![_dealId].status = "Funded"]
  /\ UNCHANGED <<now, offvars, platformFeePercent, userReputation>>

fundDeal(sender, _dealId) ==
  /\ _dealId \in ChainDealIds
  /\ cdeals[_dealId].buyer = sender
  /\ cdeals[_dealId].status = "Created"
  /\ now <= cdeals[_dealId].expiresAt
  /\ balances[sender] >= cdeals[_dealId].amount
  /\ balances' = Transfer(balances, sender, escrow, cdeals[_dealId].amount)
  /\ cdeals' = [cdeals EXCEPT ![_dealId].status = "Funded"]
  /\ UNCHANGED <<now, offvars, platformFeePercent, userReputation>>

confirmPaymentSent(sender, _dealId) ==
  /\ _dealId \in ChainDealIds
  /\ cdeals[_dealId].buyer = sender
  /\ cdeals[_dealId].status = "Funded"
  /\ cdeals' = [cdeals EXCEPT ![_dealId].status = "PaymentSent", ![_dealId].buyerConfirmed = TRUE]
  /\ UNCHANGED <<now, offvars, balances, platformFeePercent, userReputation>>

confirmPaymentReceived(sender, _dealId) ==
  /\ _dealId \in ChainDealIds
  /\ cdeals[_dealId].seller = sender
  /\ cdeals[_dealId].status = "PaymentSent"
  /\ MulFits(cdeals[_dealId].amount, platformFeePercent)
  /\ balances' = PayoutToSeller(cdeals[_dealId])
  /\ cdeals' = [cdeals EXCEPT ![_dealId].status = "Completed", ![_dealId].sellerConfirmed = TRUE]
  /\ userReputation' = [a \in Addr |->
       userReputation[a] + (IF a = cdeals[_dealId].buyer THEN 1 ELSE 0)
                         + (IF a = cdeals[_dealId].seller THEN 1 ELSE 0)]
  /\ UNCHANGED <<now, offvars, platformFeePercent>>

\* a dispute open only before the buyer has confirmed the payment
initiateDisputeFundedOnly(sender, _dealId, value) ==
  /\ _dealId \in ChainDealIds
  /\ sender = cdeals[_dealId].buyer \/ sender = cdeals[_dealId].seller
  /\ value >= DISPUTE_FEE
  /\ cdeals[_dealId].status = "Funded"
  /\ cdeals' = [cdeals EXCEPT ![_dealId].status = "Disputed"]
  /\ UNCHANGED <<now, offvars, balances, platformFeePercent, userReputation>>

\* a dispute that asks for no payment (without the require of line 182)
initiateDisputeNoFee(sender, _dealId, value) ==
  /\ _dealId \in ChainDealIds
  /\ sender = cdeals[_dealId].buyer \/ sender = cdeals[_dealId].seller
  /\ cdeals[_dealId].status \in {"Funded", "PaymentSent"}
  /\ cdeals' = [cdeals EXCEPT ![_dealId].status = "Disputed"]
  /\ UNCHANGED <<now, offvars, balances, platformFeePercent, userReputation>>

initiateDispute(sender, _dealId, value) ==
  /\ _dealId \in ChainDealIds
  /\ sender = cdeals[_dealId].buyer \/ sender = cdeals[_dealId].seller
  /\ value >= DISPUTE_FEE
  /\ cdeals[_dealId].status \in {"Funded", "PaymentSent"}
  /\ cdeals' = [cdeals EXCEPT ![_dealId].status = "Disputed"]
  /\ UNCHANGED <<now, offvars, balances, platformFeePercent, userReputation>>

\* a resolution open to every account (without the onlyArbitrator modifier)
resolveDisputeAnySender(sender, _dealId, _favorBuyer) ==
  /\ _dealId \in ChainDealIds
  /\ cdeals[_dealId].status = "Disputed"
  /\ IF _favorBuyer
     THEN balances' = RefundToBuyer(cdeals[_dealId])
     ELSE /\ MulFits(cdeals[_dealId].amount, platformFeePercent)
          /\ balances' = PayoutToSeller(cdeals[_dealId])
  /\ cdeals' = [cdeals EXCEPT ![_dealId].status = "Completed"]
  /\ UNCHANGED <<now, offvars, platformFeePercent, userReputation>>

resolveDispute(sender, _dealId, _favorBuyer) ==
  /\ sender = arbitrator
  /\ _dealId \in ChainDealIds
  /\ cdeals[_dealId].status = "Disputed"
  /\ IF _favorBuyer
     THEN balances' = RefundToBuyer(cdeals[_dealId])
     ELSE /\ MulFits(cdeals[_dealId].amount, platformFeePercent)
          /\ balances' = PayoutToSeller(cdeals[_dealId])
  /\ cdeals' = [cdeals EXCEPT ![_dealId].status = "Completed"]
  /\ UNCHANGED <<now, offvars, platformFeePercent, userReputation>>

\* a cancellation in any status (without the require of line 227)
cancelDealAnyStatus(sender, _dealId) ==
  /\ _dealId \in ChainDealIds
  /\ sender = cdeals[_dealId].buyer \/ sender = cdeals[_dealId].seller
  /\ cdeals' = [cdeals EXCEPT ![_dealId].status = "Cancelled"]
  /\ UNCHANGED <<now, offvars, balances, platformFeePercent, userReputation>>

cancelDeal(sender, _dealId) ==
  /\ _dealId \in ChainDealIds
  /\ sender = cdeals[_dealId].buyer \/ sender = cdeals[_dealId].seller
  /\ cdeals[_dealId].status = "Created"
  /\ cdeals' = [cdeals EXCEPT ![_dealId].status = "Cancelled"]
  /\ UNCHANGED <<now, offvars, balances, platformFeePercent, userReputation>>

\* a refund in any status (without the require of line 239)
emergencyRefundAnyStatus(sender, _dealId) ==
  /\ _dealId \in ChainDealIds
  /\ cdeals[_dealId].buyer = sender
  /\ now > cdeals[_dealId].expiresAt + RefundGrace
  /\ balances' = RefundToBuyer(cdeals[_dealId])
  /\ cdeals' = [cdeals EXCEPT ![_dealId].status = "Cancelled"]
  /\ UNCHANGED <<now, offvars, platformFeePercent, userReputation>>

\* a refund as soon as the deal has expired, without the hour of line 240
emergencyRefundNoGrace(sender, _dealId) ==
  /\ _dealId \in ChainDealIds
  /\ cdeals[_dealId].buyer = sender
  /\ cdeals[_dealId].status = "Funded"
  /\ now > cdeals[_dealId].expiresAt
  /\ balances' = RefundToBuyer(cdeals[_dealId])
  /\ cdeals' = [cdeals EXCEPT ![_dealId].status = "Cancelled"]
  /\ UNCHANGED <<now, offvars, platformFeePercent, userReputation>>

emergencyRefund(sender, _dealId) ==
  /\ _dealId \in ChainDealIds
  /\ cdeals[_dealId].buyer = sender
  /\ cdeals[_dealId].status = "Funded"
  /\ now > cdeals[_dealId].expiresAt + RefundGrace
  /\ balances' = RefundToBuyer(cdeals[_dealId])
  /\ cdeals' = [cdeals EXCEPT ![_dealId].status = "Cancelled"]
  /\ UNCHANGED <<now, offvars, platformFeePercent, userReputation>>

\* a fee update without the require of line 258
updatePlatformFeeNoCap(sender, _newFeePercent) ==
  /\ sender = arbitrator
  /\ platformFeePercent' = _newFeePercent
  /\ UNCHANGED <<now, offvars, cdeals, balances, userReputation>>

updatePlatformFee(sender, _newFeePercent) ==
  /\ sender = arbitrator
  /\ _newFeePercent <= MaxFeePercent
  /\ platformFeePercent' = _newFeePercent
  /\ UNCHANGED <<now, offvars, cdeals, balances, userReputation>>

(***************************************************************************)
(* Spec: the API served one request at a time, the sweep and the clock     *)
(***************************************************************************)
Next ==
  \/ \E t \in {24, 25} : Tick(t)
  \/ \E adId \in {"a1", "a2", "a3"}, w \in {"w1", "w2", "wx"}, amount \in {0, 2, 4} :
       Len(deals) < MaxLiveDeals /\ POST(adId, w, amount)
  \/ \E id \in 1..MaxLiveDeals, w \in Wallets \cup {NONE}, status \in Statuses \cup {NONE},
        rf \in RatingInputs, notified \in BOOLEAN :
       PUT(id, w, status, rf[1], rf[2], NULL, notified)
  \/ expireOldDeals

Spec == Init /\ [][Next]_vars

(***************************************************************************)
(* SpecRace: two PUT requests on one deal interleave at their awaits       *)
(***************************************************************************)
NextRace ==
  \/ Len(deals) < MaxLiveDeals /\ POST("a1", "w2", 2)
  \/ \E r \in Reqs, w \in {"w1", "w2", "w3"}, status \in {"funded", "completed", "cancelled"} :
       PutBegin(r, 1, w, status, NULL, NONE, NULL)
  \/ \E r \in Reqs : PutUpdate(r)
  \/ \E r \in Reqs, u \in Users : PutReputation(r, u)
  \/ \E r \in Reqs, notified \in BOOLEAN : PutNotify(r, notified)
  \/ expireOldDeals
  \/ Tick(25)

SpecRace == Init /\ [][NextRace]_vars

(***************************************************************************)
(* SpecCreate: deal creation, off-chain and on-chain                       *)
(***************************************************************************)
NextCreate ==
  \/ \E adId \in AdIdInputs \cup {NONE}, w \in {"w1", "w2", "wx", NONE}, amount \in AmountInputs :
       POST(adId, w, amount)
  \/ \E sender \in Addr, _seller \in Addr, _amount \in {0, 1}, _inrAmount \in {0, 1} :
       ChainCreateDeal(sender, _seller, _amount, _inrAmount)

SpecCreate == Init /\ [][NextCreate]_vars

(***************************************************************************)
(* SpecChain: the escrow contract and the clock                            *)
(***************************************************************************)
NextChain ==
  \/ \E t \in TimePoints : Tick(t)
  \/ \E sender \in {"A", "B"}, _seller \in {"A", "B"}, _amount \in ChainAmountInputs :
       ChainCreateDeal(sender, _seller, _amount, 1)
  \/ \E sender \in Addr, _dealId \in 1..MaxChainDeals : fundDeal(sender, _dealId)
  \/ \E sender \in Addr, _dealId \in 1..MaxChainDeals : confirmPaymentSent(sender, _dealId)
  \/ \E sender \in Addr, _dealId \in 1..MaxChainDeals : confirmPaymentReceived(sender, _dealId)
  \/ \E sender \in Addr, _dealId \in 1..MaxChainDeals, value \in {0, DISPUTE_FEE} :
       initiateDispute(sender, _dealId, value)
  \/ \E sender \in Addr, _dealId \in 1..MaxChainDeals, _favorBuyer \in BOOLEAN :
       resolveDispute(sender, _dealId, _favorBuyer)
  \/ \E sender \in Addr, _dealId \in 1..MaxChainDeals : cancelDeal(sender, _dealId)
  \/ \E sender \in Addr, _dealId \in 1..MaxChainDeals : emergencyRefund(sender, _dealId)
  \/ \E sender \in Addr, _newFeePercent \in FeeInputs : updatePlatformFee(sender, _newFeePercent)

SpecChain == Init /\ [][NextChain]_vars

(***************************************************************************)
(* SpecChainLive: the escrow contract with accounts that keep calling: for  *)
(* each deal, a function that stays callable on it is eventually called     *)
(***************************************************************************)
ChainFairness ==
  \A _dealId \in 1..MaxChainDeals :
    /\ WF_vars(\E sender \in Addr : confirmPaymentSent(sender, _dealId))
    /\ WF_vars(\E sender \in Addr : confirmPaymentReceived(sender, _dealId))
    /\ WF_vars(\E sender \in Addr : initiateDispute(sender, _dealId, DISPUTE_FEE))
    /\ WF_vars(\E sender \in Addr, _favorBuyer \in BOOLEAN : resolveDispute(sender, _dealId, _favorBuyer))
    /\ WF_vars(\E sender \in Addr : emergencyRefund(sender, _dealId))

SpecChainLive == Init /\ [][NextChain]_vars /\ ChainFairness

(***************************************************************************)
(* SpecSweep: the expiry sweep over several deals of different age and     *)
(* status                                                                  *)
(***************************************************************************)
NextSweep ==
  \/ \E t \in {1, DEAL_TIMEOUT + 1} : Tick(t)
  \/ POST("a1", "w2", 2)
  \/ \E id \in 1..MaxDeals, status \in {"funded", "payment_sent", "completed", "disputed", "cancelled"} :
       PUT(id, "w1", status, NULL, NONE, NULL, TRUE)
  \/ expireOldDeals

SpecSweep == Init /\ [][NextSweep]_vars

(***************************************************************************)
(* SpecAuth: status updates by the buyer, the seller and an outsider        *)
(***************************************************************************)
NextAuth ==
  \/ \E w \in {"w2", "w3"} : Len(deals) < MaxLiveDeals /\ POST("a1", w, 2)
  \/ \E id \in 1..MaxLiveDeals, w \in {"w1", "w2", "w3"}, status \in Statuses :
       PUT(id, w, status, NULL, NONE, NULL, TRUE)

SpecAuth == Init /\ [][NextAuth]_vars

(***************************************************************************)
(* SpecLink: the API's deal record beside the contract's deal it refers to *)
(***************************************************************************)
NextLink ==
  \/ Len(deals) < MaxLiveDeals /\ POST("a1", "w2", 2)
  \/ \E id \in 1..MaxLiveDeals, w \in {"w1", "w2"}, status \in {"funded", "payment_sent", "cancelled"},
        dealIdOnChain \in {NULL} \cup 1..MaxChainDeals :
       PUT(id, w, status, NULL, NONE, dealIdOnChain, TRUE)
  \/ \E sender \in {"A", "B"}, _seller \in {"A", "B"} : ChainCreateDeal(sender, _seller, 1, 1)
  \/ \E sender \in {"A", "B"}, _dealId \in 1..MaxChainDeals : fundDeal(sender, _dealId)
  \/ \E sender \in {"A", "B"}, _dealId \in 1..MaxChainDeals : confirmPaymentSent(sender, _dealId)
  \/ \E sender \in {"A", "B"}, _dealId \in 1..MaxChainDeals : cancelDeal(sender, _dealId)

SpecLink == Init /\ [][NextLink]_vars
(***************************************************************************)
(* The claims                                                              *)
(***************************************************************************)
\* the transition graph of the deal status: <<from, to>>
TransitionGraph ==
  {<<"initiated", "funded">>, <<"funded", "payment_sent">>, <<"payment_sent", "completed">>,
   <<"funded", "disputed">>, <<"payment_sent", "disputed">>, <<"disputed", "completed">>,
   <<"initiated", "cancelled">>, <<"funded", "cancelled">>,
   <<"initiated", "expired">>, <<"funded", "expired">>, <<"payment_sent", "expired">>}

\* C1: every change of a deal's stored status, by a status update or by an expiry sweep,
\* follows an edge of the transition graph: no skip, no step backwards, no change out
\* of completed, cancelled or expired.
C1_ValidWalk ==
  [][\A d \in DealIds :
       deals'[d].status # deals[d].status
         => <<deals[d].status, deals'[d].status>> \in TransitionGraph]_vars

\* C2: of two status updates that read the same row of a deal and both go on to write,
\* only the first is applied: the write of the second, made after the first changed
\* the row, leaves the row as the first write left it.
C2_SecondWriteRejected ==
  [][\A r \in Reqs, first \in Reqs :
       (/\ r # first
        /\ PutUpdate(r)
        /\ reqs[first].pc \in {"reputation", "notify"}
        /\ reqs[first].deal = reqs[r].deal
        /\ reqs[first].currentDeal = reqs[r].currentDeal
        /\ deals[reqs[r].deal] # reqs[r].currentDeal)
         => deals' = deals]_vars

\* C3: a status update by a participant that asks for a status which is no successor of
\* the deal's current status is answered with an error and changes no field of the deal.
C3_InvalidTransitionRejected ==
  [][\A id \in DealIds, w \in Wallets, status \in Statuses, rf \in RatingInputs :
       (/\ PUT(id, w, status, rf[1], rf[2], NULL, TRUE)
        /\ PutStatus(id, w, status) = 200
        /\ status # deals[id].status
        /\ <<deals[id].status, status>> \notin TransitionGraph)
         => (deals' = deals /\ response' # 200)]_vars

\* C4: when the seller confirms the payment (confirmPaymentReceived), the escrowed
\* tokens, less at most the platform fee, go to the deal's buyer.
C4_ReleaseToBuyer ==
  [][\A sender \in Addr, id \in ChainDealIds :
       confirmPaymentReceived(sender, id)
         => balances'[cdeals[id].buyer]
              >= balances[cdeals[id].buyer] + cdeals[id].amount - PlatformFee(cdeals[id].amount)]_vars

\* C5: funding a deal takes deal.amount tokens from the deal's seller and none from
\* its buyer.
C5_FundingFromSeller ==
  [][\A sender \in Addr, id \in ChainDealIds :
       fundDeal(sender, id)
         => /\ balances'[cdeals[id].seller] = balances[cdeals[id].seller] - cdeals[id].amount
            /\ balances'[cdeals[id].buyer] = balances[cdeals[id].buyer]]_vars

\* C6: a resolution of a disputed deal in favour of the buyer completes the deal and
\* pays the buyer exactly deal.amount out of escrow; the fee recipient and the seller
\* get nothing, whatever the amount and the platform fee.
C6_FavorBuyerFullRefund ==
  [][\A sender \in Addr, id \in ChainDealIds :
       resolveDispute(sender, id, TRUE)
         => /\ cdeals[id].status = "Disputed"
            /\ cdeals'[id].status = "Completed"
            /\ balances'[cdeals[id].buyer] = balances[cdeals[id].buyer] + cdeals[id].amount
            /\ balances'[escrow] = balances[escrow] - cdeals[id].amount
            /\ balances'[feeRecipient] = balances[feeRecipient]
            /\ balances'[cdeals[id].seller] = balances[cdeals[id].seller]]_vars

\* a disputed deal with a positive platform fee was resolved for the buyer: completed
\* without the seller's confirmation, the buyer holds the tokens again
C6_Witness ==
  \E id \in ChainDealIds :
    /\ cdeals[id].status = "Completed"
    /\ ~cdeals[id].sellerConfirmed
    /\ PlatformFee(cdeals[id].amount) > 0
    /\ balances[cdeals[id].buyer] = InitBalances[cdeals[id].buyer]
    /\ balances[escrow] = 0

\* C7: every stored deal has a buyer different from its seller, off-chain (for sell
\* ads and for buy ads) and on-chain.
C7_BuyerIsNotSeller ==
  /\ \A d \in DealIds : deals[d].buyer_id # deals[d].seller_id
  /\ \A id \in ChainDealIds : cdeals[id].buyer # cdeals[id].seller

\* a deal against a sell ad, a deal against a buy ad and an on-chain deal are stored
C7_Witness ==
  /\ \E d \in DealIds : ads[deals[d].ad_id].type = "sell"
  /\ \E d \in DealIds : ads[deals[d].ad_id].type = "buy"
  /\ Len(cdeals) > 0

\* the bounds of the ad a deal was created against
WithinAdBounds(ad, amount) ==
  /\ amount > 0
  /\ ad.min_amount # NULL => amount >= ad.min_amount
  /\ ad.max_amount # NULL => amount <= ad.max_amount
  /\ amount <= ad.amount

RatingReceived(deal, u) == IF u = deal.seller_id THEN deal.seller_rating ELSE deal.buyer_rating

\* the reputation formula: completed deals of the user, those of them in which the
\* counterpart rated the user 4 or more, and the rounded percentage
ReputationFormula(u) ==
  LET completed == {d \in DealIds : u \in {deals[d].buyer_id, deals[d].seller_id}
                                     /\ deals[d].status = "completed"}
      positive == {d \in completed : RatingReceived(deals[d], u) >= 4}
  IN [reputation_score |-> IF completed = {} THEN 0
                           ELSE RoundPercent(Cardinality(positive), Cardinality(completed)),
      total_trades |-> Cardinality(completed),
      successful_trades |-> Cardinality(positive)]

\* C9: for every user, the recomputed reputation is the reputation formula over the
\* deals table: completed deals of the user, positive = those in which the
\* counterpart's rating of the user is at least 4, score = the rounded percentage.
C9_RecomputeIsFormula ==
  \A u \in Users : updateUserReputation(deals, u) = ReputationFormula(u)

\* C10: in every state each user's stored reputation_score, total_trades and
\* successful_trades are what the recompute gives over the current deals table.
C10_StoredReputationCurrent ==
  \A u \in Users : users[u] = updateUserReputation(deals, u)

\* C11: the write of status completed and the recompute of the buyer's and the seller's
\* reputation are one step: in no state is a deal completed while the stored reputation
\* of its buyer or its seller is not yet the recomputed one.
C11_CompletionRecomputeAtomic ==
  \A d \in DealIds :
    deals[d].status = "completed"
      => \A u \in {deals[d].buyer_id, deals[d].seller_id} :
           users[u] = updateUserReputation(deals, u)

\* the statuses no transition leaves
Terminal == {"completed", "cancelled", "expired"}

\* C12: an expiry sweep changes no field of a deal whose status is completed, cancelled
\* or expired, whatever the deal's expires_at and the time of the sweep.
C12_SweepSparesTerminal ==
  [][expireOldDeals
       => \A d \in DealIds : deals[d].status \in Terminal => deals'[d] = deals[d]]_vars

\* a completed and a cancelled deal, both past their expires_at, beside a deal that a
\* sweep has expired
C12_Witness ==
  /\ \E d \in DealIds : deals[d].status = "completed" /\ deals[d].expires_at < now
  /\ \E d \in DealIds : deals[d].status = "cancelled" /\ deals[d].expires_at < now
  /\ \E d \in DealIds : deals[d].status = "expired"

\* C13: one sweep sets to expired exactly the deals that were initiated, funded or
\* payment_sent with expires_at < now; every other deal (disputed, terminal, or with
\* expires_at >= now) keeps its status.
C13_SweepExpiresExactlyOverdue ==
  [][expireOldDeals
       => \A d \in DealIds :
            IF deals[d].status \in {"initiated", "funded", "payment_sent"}
               /\ deals[d].expires_at < now
            THEN deals'[d].status = "expired"
            ELSE deals'[d].status = deals[d].status]_vars

\* after a sweep: an overdue deal expired, a disputed overdue deal still disputed, and a
\* deal at its expires_at still initiated
C13_Witness ==
  /\ \E d \in DealIds : deals[d].status = "expired" /\ deals[d].expires_at < now
  /\ \E d \in DealIds : deals[d].status = "disputed" /\ deals[d].expires_at < now
  /\ \E d \in DealIds : deals[d].status = "initiated" /\ deals[d].expires_at = now

\* C14: a status update sent by a registered user who is neither the buyer nor the
\* seller of the deal is answered 403 and changes neither the deal, nor any user's
\* reputation, nor the notifications.
C14_OutsiderRejected ==
  [][\A id \in DealIds, w \in Wallets, status \in Statuses :
       (/\ getUserByWallet(w) \notin {NONE, deals[id].buyer_id, deals[id].seller_id}
        /\ \E rf \in RatingInputs, notified \in BOOLEAN :
             PUT(id, w, status, rf[1], rf[2], NULL, notified))
         => (/\ response' = 403
             /\ deals' = deals
             /\ users' = users
             /\ notifications' = notifications)]_vars

\* an outsider's request on a stored deal was answered 403
C14_Witness ==
  /\ Len(deals) > 0
  /\ response = 403

\* C15: funded -> payment_sent is applied only on the buyer's request and
\* payment_sent -> completed only on the seller's; the same request from the other
\* participant is rejected and changes nothing.
C15_RoleOfTransition ==
  [][\A id \in DealIds, w \in Wallets, status \in {"payment_sent", "completed"} :
       (/\ PUT(id, w, status, NULL, NONE, NULL, TRUE)
        /\ \/ /\ status = "payment_sent"
              /\ deals[id].status = "funded"
              /\ getUserByWallet(w) = deals[id].seller_id
           \/ /\ status = "completed"
              /\ deals[id].status = "payment_sent"
              /\ getUserByWallet(w) = deals[id].buyer_id)
         => (deals' = deals /\ users' = users /\ response' # 200)]_vars

\* the contract's deal a record refers to has been funded: it is Funded or in a status
\* only a funded deal gets to (Cancelled is counted too: the contract's record does
\* not tell a refund from a cancellation before funding)
ChainFunded(deal) ==
  /\ deal.deal_id_on_chain \in ChainDealIds
  /\ cdeals[deal.deal_id_on_chain].status # "Created"

\* C16: in every state, an off-chain deal of status funded refers to a contract deal
\* that has been funded.
C16_FundedOnlyIfChainFunded ==
  \A d \in DealIds : deals[d].status = "funded" => ChainFunded(deals[d])

\* C17: a request through the API to cancel a deal that is funded on chain is rejected:
\* the request is answered with an error and the deal's status is not set to cancelled.
C17_CancelAfterFundingRejected ==
  [][\A id \in DealIds, w \in Wallets, dealIdOnChain \in {NULL} \cup ChainDealIds :
       (/\ deals[id].status = "funded"
        /\ deals[id].deal_id_on_chain \in ChainDealIds
        /\ cdeals[deals[id].deal_id_on_chain].status = "Funded"
        /\ PutStatus(id, w, "cancelled") = 200
        /\ PUT(id, w, "cancelled", NULL, NONE, dealIdOnChain, TRUE))
         => (deals'[id].status = "funded" /\ response' # 200)]_vars

\* C18: platformFeePercent never exceeds 500 basis points; whatever leaves escrow in a
\* step, the fee recipient gets at most 5% of it; and the fee changes only by an
\* updatePlatformFee of the arbitrator with a value of at most 500 (any other call
\* reverts and leaves it as it was).
C18_FeeCapped ==
  /\ [](/\ platformFeePercent <= MaxFeePercent
        /\ \A sender \in Addr, v \in FeeInputs :
             (sender # arbitrator \/ v > MaxFeePercent) => ~ENABLED updatePlatformFee(sender, v))
  /\ [][/\ balances'[escrow] < balances[escrow]
             => (balances'[feeRecipient] - balances[feeRecipient]) * BasisPoints
                  <= MaxFeePercent * (balances[escrow] - balances'[escrow])
        /\ platformFeePercent' # platformFeePercent
             => \E v \in 0..MaxFeePercent : updatePlatformFee(arbitrator, v)]_vars

\* the fee was raised to the cap and a payout to a seller paid 5% of the amount as fee
C18_Witness ==
  /\ platformFeePercent = MaxFeePercent
  /\ \E id \in ChainDealIds :
       /\ cdeals[id].status = "Completed"
       /\ balances[feeRecipient] * BasisPoints = MaxFeePercent * cdeals[id].amount
       /\ balances[feeRecipient] > 0

\* C19: a rating that is set on a deal is never changed by a later request, and a
\* request that sets one party's rating leaves the other party's rating as it was.
C19_RatingSetOnce ==
  [][\A d \in DealIds :
       /\ deals[d].seller_rating # NULL => deals'[d].seller_rating = deals[d].seller_rating
       /\ deals[d].buyer_rating # NULL => deals'[d].buyer_rating = deals[d].buyer_rating
       /\ deals'[d].seller_rating # deals[d].seller_rating
            => deals'[d].buyer_rating = deals[d].buyer_rating]_vars

\* C20: a status update whose notification cannot be written still persists the new
\* status and reports success to the caller.
C20_NotificationFailureTolerated ==
  [][\A id \in DealIds, w \in Wallets, status \in Statuses, rf \in RatingInputs :
       (/\ PutStatus(id, w, status) = 200
        /\ notificationMessage(status) # NONE
        /\ PUT(id, w, status, rf[1], rf[2], NULL, FALSE))
         => (deals'[id].status = status /\ response' = 200)]_vars

\* C21: in every state, each deal of status disputed has an open record in the disputes
\* table that refers to it.
C21_DisputedHasOpenDispute ==
  \A d \in DealIds :
    deals[d].status = "disputed"
      => \E x \in disputes : x.deal_id = d /\ x.status = "open"

\* C22: emergencyRefund goes through only for the deal's buyer, on a Funded deal, at a
\* time strictly after expiresAt plus the grace of one hour (otherwise it reverts: it
\* is not enabled); when it goes through, exactly deal.amount moves from escrow to the
\* buyer, the deal becomes Cancelled and nothing else changes.
C22_EmergencyRefund ==
  /\ [](\A sender \in Addr, id \in 1..MaxChainDeals :
          ENABLED emergencyRefund(sender, id)
            => /\ id \in ChainDealIds
               /\ sender = cdeals[id].buyer
               /\ cdeals[id].status = "Funded"
               /\ now > cdeals[id].expiresAt + RefundGrace)
  /\ [][\A sender \in Addr, id \in ChainDealIds :
          emergencyRefund(sender, id)
            => /\ balances' = [balances EXCEPT ![cdeals[id].buyer] = @ + cdeals[id].amount,
                                               ![escrow] = @ - cdeals[id].amount]
               /\ cdeals' = [cdeals EXCEPT ![id].status = "Cancelled"]]_vars

\* a deal was funded and, past expiresAt plus the grace, is Cancelled with the tokens
\* back at its buyer
C22_Witness ==
  \E id \in ChainDealIds :
    /\ cdeals[id].status = "Cancelled"
    /\ now > cdeals[id].expiresAt + RefundGrace
    /\ cdeals[id].createdAt < now - DEAL_TIMEOUT - RefundGrace
    /\ balances[escrow] = 0
    /\ balances[cdeals[id].buyer] = InitBalances[cdeals[id].buyer]

\* C23: initiateDispute goes through only for the buyer or the seller of the deal, with
\* a payment of at least DISPUTE_FEE, on a Funded or PaymentSent deal (otherwise it
\* reverts: it is not enabled); and a deal becomes Disputed by such a call only, which
\* changes nothing but the status.
C23_DisputeOnlyByParticipant ==
  /\ [](\A sender \in Addr, id \in 1..MaxChainDeals, value \in 0..DISPUTE_FEE :
          ENABLED initiateDispute(sender, id, value)
            => /\ id \in ChainDealIds
               /\ sender \in {cdeals[id].buyer, cdeals[id].seller}
               /\ value >= DISPUTE_FEE
               /\ cdeals[id].status \in {"Funded", "PaymentSent"})
  /\ [][\A id \in ChainDealIds :
          (cdeals'[id].status = "Disputed" /\ cdeals[id].status # "Disputed")
            => /\ cdeals[id].status \in {"Funded", "PaymentSent"}
               /\ \E sender \in {cdeals[id].buyer, cdeals[id].seller} :
                    initiateDispute(sender, id, DISPUTE_FEE)
               /\ cdeals' = [cdeals EXCEPT ![id].status = "Disputed"]
               /\ balances' = balances]_vars

\* a deal was disputed after the buyer had confirmed the payment
C23_Witness ==
  \E id \in ChainDealIds : cdeals[id].status = "Disputed" /\ cdeals[id].buyerConfirmed

\* C24: cancelDeal goes through only for the buyer or the seller of a deal in Created
\* state (otherwise it reverts: it is not enabled); when it goes through, the deal
\* becomes Cancelled and no token moves.
C24_CancelOnlyUnfunded ==
  /\ [](\A sender \in Addr, id \in 1..MaxChainDeals :
          ENABLED cancelDeal(sender, id)
            => /\ id \in ChainDealIds
               /\ sender \in {cdeals[id].buyer, cdeals[id].seller}
               /\ cdeals[id].status = "Created")
  /\ [][\A sender \in Addr, id \in ChainDealIds :
          cancelDeal(sender, id)
            => /\ cdeals[id].status = "Created"
               /\ cdeals' = [cdeals EXCEPT ![id].status = "Cancelled"]
               /\ balances' = balances]_vars

\* a deal was cancelled before its expiry, when no refund is possible yet
C24_Witness ==
  \E id \in ChainDealIds :
    /\ cdeals[id].status = "Cancelled"
    /\ now <= cdeals[id].expiresAt

\* C25: every on-chain deal expires DEAL_TIMEOUT after its creation and neither time
\* ever changes; fundDeal goes through only for the deal's buyer, on a Created deal,
\* no later than expiresAt, and nothing else makes a deal Funded.
C25_ExpiryFixedAndEnforced ==
  /\ [](\A id \in ChainDealIds : cdeals[id].expiresAt = cdeals[id].createdAt + DEAL_TIMEOUT)
  /\ [](\A sender \in Addr, id \in 1..MaxChainDeals :
          ENABLED fundDeal(sender, id)
            => /\ id \in ChainDealIds
               /\ sender = cdeals[id].buyer
               /\ cdeals[id].status = "Created"
               /\ now <= cdeals[id].expiresAt)
  /\ [][\A id \in ChainDealIds :
          /\ cdeals'[id].expiresAt = cdeals[id].expiresAt
          /\ cdeals'[id].createdAt = cdeals[id].createdAt
          /\ (cdeals'[id].status = "Funded" /\ cdeals[id].status # "Funded")
               => /\ cdeals[id].status = "Created"
                  /\ now <= cdeals[id].expiresAt
                  /\ fundDeal(cdeals[id].buyer, id)]_vars

\* a Created deal is past its expiry with a buyer who could still pay for it
C25_Witness ==
  \E id \in ChainDealIds :
    /\ cdeals[id].status = "Created"
    /\ now > cdeals[id].expiresAt
    /\ balances[cdeals[id].buyer] >= cdeals[id].amount

\* C26: on a Disputed deal no contract function is enabled for any account except
\* resolveDispute for the arbitrator; the deal changes only by such a resolution,
\* which makes it Completed, and tokens move for it only by such a resolution.
C26_DisputedOnlyResolved ==
  /\ [](\A id \in ChainDealIds, sender \in Addr :
          cdeals[id].status = "Disputed"
            => /\ ~ENABLED fundDeal(sender, id)
               /\ ~ENABLED confirmPaymentSent(sender, id)
               /\ ~ENABLED confirmPaymentReceived(sender, id)
               /\ ~ENABLED initiateDispute(sender, id, DISPUTE_FEE)
               /\ ~ENABLED cancelDeal(sender, id)
               /\ ~ENABLED emergencyRefund(sender, id)
               /\ sender # arbitrator
                    => /\ ~ENABLED resolveDispute(sender, id, TRUE)
                       /\ ~ENABLED resolveDispute(sender, id, FALSE))
  /\ [][\A id \in ChainDealIds :
          cdeals[id].status = "Disputed"
            => /\ cdeals'[id] # cdeals[id]
                    => /\ cdeals'[id].status = "Completed"
                       /\ \E _favorBuyer \in BOOLEAN : resolveDispute(arbitrator, id, _favorBuyer)
               /\ (balances' # balances /\ \A j \in ChainDealIds \ {id} : cdeals'[j] = cdeals[j])
                    => \E _favorBuyer \in BOOLEAN : resolveDispute(arbitrator, id, _favorBuyer)]_vars

\* a deal disputed before the seller confirmed has been resolved
C26_Witness ==
  \E id \in ChainDealIds :
    /\ cdeals[id].status = "Completed"
    /\ ~cdeals[id].sellerConfirmed

\* the contract statuses in which a deal's tokens are in the contract
Holding == {"Funded", "PaymentSent", "Disputed"}

RECURSIVE HeldUpTo(_)
\* the sum of amount over the first n deals that hold tokens
HeldUpTo(n) ==
  IF n = 0 THEN 0
  ELSE HeldUpTo(n - 1) + (IF cdeals[n].status \in Holding THEN cdeals[n].amount ELSE 0)

RECURSIVE SumOver(_, _)
\* the sum of bal over the accounts of S
SumOver(bal, S) ==
  IF S = {} THEN 0
  ELSE LET a == CHOOSE x \in S : TRUE IN bal[a] + SumOver(bal, S \ {a})

C28_ChainTerminalAbsorbing ==
  /\ [](\A id \in ChainDealIds, sender \in Addr :
          cdeals[id].status \in {"Completed", "Cancelled"}
            => /\ ~ENABLED fundDeal(sender, id)
               /\ ~ENABLED confirmPaymentSent(sender, id)
               /\ ~ENABLED confirmPaymentReceived(sender, id)
               /\ ~ENABLED initiateDispute(sender, id, DISPUTE_FEE)
               /\ ~ENABLED resolveDispute(sender, id, TRUE)
               /\ ~ENABLED resolveDispute(sender, id, FALSE)
               /\ ~ENABLED cancelDeal(sender, id)
               /\ ~ENABLED emergencyRefund(sender, id))
  /\ [][\A id \in ChainDealIds :
          cdeals[id].status \in {"Completed", "Cancelled"}
            => /\ cdeals'[id] = cdeals[id]
               /\ (\A j \in ChainDealIds \ {id} : cdeals'[j] = cdeals[j]) => balances' = balances]_vars

\* a deal is Completed at a time when a Funded deal could be refunded
C28_Witness ==
  \E id \in ChainDealIds :
    /\ cdeals[id].status = "Completed"
    /\ now > cdeals[id].expiresAt + RefundGrace

\* C29: a POST (the step that stores a deal or answers a request) leaves every ad as
\* it was, and the answer any request would get is the same after the POST as before
\* it: a deal already stored against an ad does not change what the next request
\* against that ad is allowed.
C29_PostLeavesAdUnchanged ==
  [][(deals' # deals \/ response' # response)
       => /\ ads' = ads
          /\ \A adId \in AdIdInputs, w \in {"w1", "w2"}, amount \in AmountInputs :
               PostStatus(adId, w, amount)' = PostStatus(adId, w, amount)]_vars

\* two deals, each of the ad's whole amount, are stored against the same ad
C29_Witness ==
  /\ Len(deals) >= 2
  /\ deals[1].ad_id = "a1" /\ deals[2].ad_id = "a1"
  /\ deals[1].amount = ads["a1"].amount
  /\ deals[2].amount = ads["a1"].amount

\* C30: in every state in which a deal holds tokens a call that moves it on is
\* enabled (a dispute for a participant of a Funded or PaymentSent deal, a refund to
\* the buyer by the arbitrator for a Disputed one), and when the accounts keep calling
\* the functions that stay callable, every deal that holds tokens becomes Completed or
\* Cancelled.
C30_EscrowNeverLocked ==
  /\ [](\A id \in ChainDealIds :
          /\ cdeals[id].status \in {"Funded", "PaymentSent"}
               => ENABLED initiateDispute(cdeals[id].buyer, id, DISPUTE_FEE)
          /\ cdeals[id].status = "Disputed"
               => ENABLED resolveDispute(arbitrator, id, TRUE))
  /\ \A id \in 1..MaxChainDeals :
       (id \in ChainDealIds /\ cdeals[id].status \in Holding)
         ~> (id \in ChainDealIds /\ cdeals[id].status \in {"Completed", "Cancelled"})

\* a deal whose payout to the seller overflows is waiting for the seller's confirmation
C30_Witness ==
  \E id \in ChainDealIds :
    /\ cdeals[id].status = "PaymentSent"
    /\ ~MulFits(cdeals[id].amount, platformFeePercent)
====
